---- MODULE Spec2Model ----
(***************************************************************************)
(* Model of the Solr admin scripts src/app.py ("baseline") and             *)
(* src/optimized/app.py ("optimized", the SolrClient class).               *)
(*                                                                         *)
(* The search server and the file system are the environment.  The server  *)
(* is modelled by the contract the scripts rely on: a set of cores, and    *)
(* per core an index keyed by the unique key "id" (an add of a stored id   *)
(* overwrites, a document without an id is rejected, a write is visible    *)
(* to searches once committed).  Every request the scripts send gets one   *)
(* of the response kinds of ResponseKinds, chosen by the environment.      *)
(*                                                                         *)
(* Three specifications share the variables:                               *)
(*   Spec      the admin operations called in any order, any arguments     *)
(*   SpecMain  main() of either script, step by step                       *)
(*   SpecCsv   the CSV-to-documents conversion of index data alone         *)
(***************************************************************************)
EXTENDS Integers, Sequences, FiniteSets, TLC

VARIABLES variant, env, fs, cores, index, searcher, call, documents, pc, log, status

vars == <<variant, env, fs, cores, index, searcher, call, documents, pc, log, status>>

server == <<cores, index, searcher>>

driver == <<pc, log, status>>

(***************************************************************************)
(* Bounds of the model.                                                    *)
(***************************************************************************)
\* Data rows in a CSV file.
MaxRows == 2

Variants == {"baseline", "optimized"}

\* The two cores both mains create.
NameCore == "Hash_YourName"

PhoneCore == "Hash_1234"

CoreNames == {NameCore, PhoneCore}

(***************************************************************************)
(* Python values.  A returned value is a record of one shape, so that a    *)
(* string, an integer, a boolean, a list and a mapping are all comparable: *)
(* kind says which one it is.  A string is the sequence of the pieces the  *)
(* f-string joins.  kind "raise" is a fault that reached the caller.       *)
(***************************************************************************)
RetStr(parts) == [kind |-> "str", parts |-> parts, num |-> 0, docs |-> <<>>, facets |-> {}]

RetInt(n) == [kind |-> "int", parts |-> <<>>, num |-> n, docs |-> <<>>, facets |-> {}]

RetBool(b) == [kind |-> "bool", parts |-> <<>>, num |-> IF b THEN 1 ELSE 0, docs |-> <<>>, facets |-> {}]

RetList(ds) == [kind |-> "list", parts |-> <<>>, num |-> 0, docs |-> ds, facets |-> {}]

RetDict(fc) == [kind |-> "dict", parts |-> <<>>, num |-> 0, docs |-> <<>>, facets |-> fc]

RetNone == [kind |-> "none", parts |-> <<>>, num |-> 0, docs |-> <<>>, facets |-> {}]

Raise(exc) == [kind |-> "raise", parts |-> <<exc>>, num |-> 0, docs |-> <<>>, facets |-> {}]

(***************************************************************************)
(* The CSV file.  fs is what the path employee_data.csv holds: NoFile, or  *)
(* a header and the data rows as csv.reader yields them (a blank line is   *)
(* the empty row).  A cell is <<s>> for the string s and <<>> for None;    *)
(* under RestKey it is the list of the surplus fields.                     *)
(***************************************************************************)
NoFile == [exists |-> FALSE, header |-> <<>>, rows |-> <<>>]

Csv(h, rs) == [exists |-> TRUE, header |-> h, rows |-> rs]

\* DictReader's restkey (None), the key of a row's surplus fields.
RestKey == "<None>"

\* DictReader's restval (None), the value of a field the row lacks.
RestVal == <<>>

\* dict(zip(fieldnames, row)), then restkey / restval: one row as a mapping.
DictRow(h, row) ==
    LET keys == {h[i] : i \in 1..Len(h)}
        last(k) == CHOOSE i \in 1..Len(h) : h[i] = k /\ \A j \in 1..Len(h) : h[j] = k => j <= i
        base == [k \in keys |-> IF last(k) <= Len(row) THEN <<row[last(k)]>> ELSE RestVal]
    IN  IF Len(row) > Len(h)
        THEN [k \in keys \cup {RestKey} |->
                 IF k = RestKey THEN SubSeq(row, Len(h) + 1, Len(row)) ELSE base[k]]
        ELSE base

\* Mutant of RowDoc: the comprehension without its filter.
RowDocKeepsAll(d, x) == d

\* {k: v for k, v in row.items() if k != exclude_column}
RowDoc(d, x) == [k \in DOMAIN d \ {x} |-> d[k]]

\* DictReader skips the rows that are empty lists.
NonBlank(r) == r # <<>>

\* Mutant of Documents: the first data row is taken for a second header.
DocumentsSkipFirst(f, x) ==
    LET rs == Tail(SelectSeq(f.rows, NonBlank) \o <<<<>>>>)
    IN  [i \in 1..(Len(rs) - 1) |-> RowDoc(DictRow(f.header, rs[i]), x)]

\* The documents index data builds from an open file, in row order.
Documents(f, x) ==
    LET rs == SelectSeq(f.rows, NonBlank)
    IN  [i \in 1..Len(rs) |-> RowDoc(DictRow(f.header, rs[i]), x)]

(***************************************************************************)
(* The environment's inputs.                                               *)
(***************************************************************************)
\* What a request can meet: a 2xx answer with the expected body ("ok"), a
\* non-2xx answer, no answer at all, a 2xx answer whose body is not JSON
\* ("malformed"), a 2xx answer whose JSON lacks the expected keys.
ResponseKinds == {"ok", "http_error", "unreachable", "malformed", "unexpected"}

\* The answers a client reads as failures of the transport.
TransportFailures == {"http_error", "unreachable"}

\* Document ids, in the order the server lists them.
IdOrder == <<"E02003", "E02004">>

Ids == {IdOrder[i] : i \in 1..Len(IdOrder)}

\* Department values, in the order the server lists facet values.
DeptOrder == <<"IT", "HR">>

Departments == {DeptOrder[i] : i \in 1..Len(DeptOrder)}

\* The header of employee_data.csv used by the operation-level runs.
EmployeeHeader == <<"id", "Department", "Gender">>

\* Excluded-column arguments: three columns of the file and one it lacks.
ExcludeChoices == {"Department", "Gender", "id", "Salary"}

\* The excluded columns of the operation-level runs: the one main excludes
\* by default, and the unique key (the server then rejects the batch).
CallExcludeChoices == {"Department", "id"}

\* The answers the environment gives a write.  The server's own non-2xx
\* answers (no such core, a document without id) come on top of these.
WriteAnswers == {"ok", "unreachable"}

\* The data rows of those files: one employee of the IT department per id.
EmployeeRows == {<<i, "IT", "Male">> : i \in Ids}

\* All sequences over S of length at most n.
SeqsUpTo(S, n) == UNION {[1..k -> S] : k \in 0..n}

\* What the CSV path can hold when an operation-level run opens it.
EmployeeFiles == {NoFile} \cup {Csv(EmployeeHeader, rs) : rs \in SeqsUpTo(EmployeeRows, MaxRows)}

(***************************************************************************)
(* Events of one operation, in program order: the file being opened and    *)
(* closed, and the requests sent.                                          *)
(***************************************************************************)
FileEvent(what) == [ev |-> what, req |-> "", core |-> "", arg |-> <<>>, docs |-> <<>>, commit |-> FALSE]

Request(req, c, arg, docs, commit) ==
    [ev |-> "request", req |-> req, core |-> c, arg |-> arg, docs |-> docs, commit |-> commit]

Requests(events) == SelectSeq(events, LAMBDA e : e.ev = "request")

(***************************************************************************)
(* The server.  sv is a record [cores, index, searcher].                   *)
(***************************************************************************)
EmptyIndex == [i \in {} |-> <<>>]

NoDocs == [c \in CoreNames |-> EmptyIndex]

\* A request to a core the server does not have is answered 404.
CoreResponse(sv, c, r) ==
    IF c \notin sv.cores /\ r \notin TransportFailures THEN "http_error" ELSE r

\* The unique key is required: a document without an id is rejected.
Accepts(docs) == \A j \in 1..Len(docs) : "id" \in DOMAIN docs[j] /\ docs[j]["id"] # RestVal

\* The index after an add: a document replaces the stored one of its id.
AddedIndex(old, docs) ==
    LET ids == {docs[j]["id"][1] : j \in 1..Len(docs)}
        last(i) == CHOOSE j \in 1..Len(docs) :
                       docs[j]["id"][1] = i /\ \A k \in 1..Len(docs) : docs[k]["id"][1] = i => k <= j
    IN  [i \in DOMAIN old \cup ids |-> IF i \in ids THEN docs[last(i)] ELSE old[i]]

DeletedIndex(old, id) == [i \in DOMAIN old \ {id} |-> old[i]]

\* A write reaches the index; a commit opens a searcher on it.
ServerWrite(sv, c, newIndex, commit) ==
    [cores |-> sv.cores,
     index |-> [sv.index EXCEPT ![c] = newIndex],
     searcher |-> IF commit THEN [sv.searcher EXCEPT ![c] = newIndex] ELSE sv.searcher]

ServerCreate(sv, c) == [sv EXCEPT !.cores = sv.cores \cup {c}]

\* numFound of *:* on the core's searcher.
Hits(sv, c) == Cardinality(DOMAIN sv.searcher[c])

\* The documents field:"value" matches, in the server's order.
Matches(sv, c, col, val) ==
    LET hit(i) == /\ i \in DOMAIN sv.searcher[c]
                  /\ col \in DOMAIN sv.searcher[c][i]
                  /\ sv.searcher[c][i][col] = <<val>>
        ids == SelectSeq(IdOrder, hit)
    IN  [j \in 1..Len(ids) |-> sv.searcher[c][ids[j]]]

\* facet_fields.Department: the flat list value, count, value, count, ...
FacetList(sv, c) ==
    LET n(d) == Cardinality({i \in DOMAIN sv.searcher[c] :
                    "Department" \in DOMAIN sv.searcher[c][i] /\ sv.searcher[c][i]["Department"] = <<d>>})
        vs == SelectSeq(DeptOrder, LAMBDA d : n(d) > 0)
    IN  [j \in 1..2 * Len(vs) |-> IF j % 2 = 1 THEN vs[(j + 1) \div 2] ELSE n(vs[j \div 2])]

(***************************************************************************)
(* The admin client.  Each operation is an operator from the variant v,    *)
(* the server sv, the arguments and the answers the environment gives to   *)
(* the requests; its value is the outcome: what the caller gets (ret, a    *)
(* value or a raised fault), the events in program order, the server       *)
(* afterwards.                                                             *)
(***************************************************************************)
Out(ret, events, sv) == [ret |-> ret, events |-> events, sv |-> sv]

\* str(e) of the exception an answer turns into.
ErrText(r) ==
    CASE r = "http_error" -> "HTTP error"
      [] r = "unreachable" -> "connection failed"
      [] r = "malformed" -> "response is not JSON"
      [] r = "unexpected" -> "key missing"
      [] OTHER -> ""

\* The exception requests raises for an answer: a ConnectionError carries no
\* response, an HTTPError (raise_for_status) carries one, a JSON decoding
\* error (response.json()) is a RequestException without a response.
RequestsError(r) ==
    CASE r = "unreachable" -> [type |-> "ConnectionError", caught |-> TRUE, response |-> FALSE]
      [] r = "http_error" -> [type |-> "HTTPError", caught |-> TRUE, response |-> TRUE]
      [] r = "malformed" -> [type |-> "JSONDecodeError", caught |-> TRUE, response |-> FALSE]
      [] OTHER -> [type |-> "KeyError", caught |-> FALSE, response |-> FALSE]

\* except requests.exceptions.RequestException as e: log; hasattr(e, 'response')
\* holds of every RequestException, so e.response.status_code is read, and it
\* raises AttributeError when e.response is None.  handled is the handler's
\* return value.
ExceptRequestException(e, handled) ==
    IF ~e.caught THEN Raise(e.type)
    ELSE IF ~e.response THEN Raise("AttributeError")
    ELSE handled

\* Mutant of AlwaysCommit: the client built without always_commit.
NeverCommit == FALSE

\* always_commit=True of the pysolr.Solr(...) every document operation builds.
AlwaysCommit == TRUE

StatusAllRequest == Request("STATUS", "", <<>>, <<>>, FALSE)

StatusRequest(c) == Request("STATUS", c, <<>>, <<>>, FALSE)

CreateRequest(c) == Request("CREATE", c, <<c, "_default">>, <<>>, FALSE)

\* check_solr_connection / SolrClient.check_connection
CheckConnection(v, sv, r) ==
    Out(IF r \in TransportFailures
        THEN ExceptRequestException(RequestsError(r), RetBool(FALSE))
        ELSE RetBool(TRUE),
        <<StatusAllRequest>>, sv)

\* Mutant of CheckCoreExists: the name is looked up among the top-level keys
\* of the answer instead of those of its 'status' entry.
CheckCoreExistsTopLevel(v, sv, c, r) ==
    Out(IF r = "ok"
        THEN RetBool(FALSE)
        ELSE ExceptRequestException(RequestsError(r), RetBool(FALSE)),
        <<StatusRequest(c)>>, sv)

\* check_core_exists / SolrClient.check_core_exists
CheckCoreExists(v, sv, c, r) ==
    Out(IF r = "ok"
        THEN RetBool(c \in sv.cores)
        ELSE ExceptRequestException(RequestsError(r), RetBool(FALSE)),
        <<StatusRequest(c)>>, sv)

AlreadyExistsMsg(c) == RetStr(<<"Core ", c, " already exists.">>)

CreatedMsg(c) == RetStr(<<"Core ", c, " created successfully.">>)

CreateFailedResponseMsg(c) == RetStr(<<"Failed to create core ", c, ". Response: ", "body">>)

CreateFailedErrorMsg(c, r) == RetStr(<<"Failed to create core ", c, ". Error: ", ErrText(r)>>)

\* The server's answer to CREATE: a core of that name is refused.
CreateResponse(sv, c, r) ==
    IF c \in sv.cores /\ r \notin TransportFailures THEN "http_error" ELSE r

\* createCore / SolrClient.create_core; r1 answers STATUS, r2 answers CREATE.
CreateCore(v, sv, c, r1, r2) ==
    LET exists == CheckCoreExists(v, sv, c, r1)
        r == CreateResponse(sv, c, r2)
        after == IF r \in TransportFailures THEN sv ELSE ServerCreate(sv, c)
        sent == exists.events \o <<CreateRequest(c)>>
    IN  IF exists.ret.kind = "raise" THEN exists
        ELSE IF exists.ret = RetBool(TRUE) THEN Out(AlreadyExistsMsg(c), exists.events, sv)
        ELSE IF r = "ok" THEN Out(CreatedMsg(c), sent, after)
        ELSE IF r = "unexpected" THEN Out(CreateFailedResponseMsg(c), sent, after)
        ELSE Out(ExceptRequestException(RequestsError(r), CreateFailedErrorMsg(c, r)), sent, after)

\* The path both scripts open by default.
CsvPath == "employee_data.csv"

\* The server's answer to an add: 404 without the core, 400 for a batch with
\* a document that lacks the unique key.
AddResponse(sv, c, docs, r) ==
    LET r1 == CoreResponse(sv, c, r)
    IN  IF r1 \notin TransportFailures /\ ~Accepts(docs) THEN "http_error" ELSE r1

AddRequest(c, docs) == Request("add", c, <<>>, docs, AlwaysCommit)

IndexedMsg(c, x) == RetStr(<<"Data indexed into ", c, ", excluding column ", x>>)

\* Mutant of CsvNotFound: no except FileNotFoundError clause, the fault takes
\* the general path.
CsvNotFoundGeneric(v) ==
    IF v = "baseline"
    THEN Raise("FileNotFoundError")
    ELSE RetStr(<<"Failed to index data: ", "No such file or directory">>)

\* except FileNotFoundError: the baseline names no path, the refactor does.
CsvNotFound(v) ==
    IF v = "baseline"
    THEN RetStr(<<"Failed to index data: CSV file not found">>)
    ELSE RetStr(<<"Failed to index data: CSV file ", CsvPath, " not found">>)

\* What index data does with the fault of solr.add: the baseline catches
\* FileNotFoundError only, the refactor has except Exception.
IndexFailure(v, r) ==
    IF v = "baseline"
    THEN Raise("SolrError")
    ELSE RetStr(<<"Failed to index data: ", ErrText(r)>>)

\* The baseline calls solr.add inside the with block, the refactor after it.
IndexEvents(v, add) ==
    IF v = "baseline"
    THEN <<FileEvent("open"), add, FileEvent("close")>>
    ELSE <<FileEvent("open"), FileEvent("close"), add>>

\* indexData / SolrClient.index_data on the file f, excluding column x.
IndexData(v, sv, c, x, f, r) ==
    LET docs == Documents(f, x)
        ra == AddResponse(sv, c, docs, r)
        events == IndexEvents(v, AddRequest(c, docs))
    IN  IF ~f.exists THEN Out(CsvNotFound(v), <<>>, sv)
        ELSE IF ra \in TransportFailures THEN Out(IndexFailure(v, ra), events, sv)
        ELSE Out(IndexedMsg(c, x), events,
                 ServerWrite(sv, c, AddedIndex(sv.index[c], docs), AlwaysCommit))

\* f'{column_name}:"{column_value}"'
SearchQuery(col, val) == <<col, ":\"", val, "\"">>

\* except Exception: the baseline returns a string, the refactor an empty list.
SearchFailure(v, r) ==
    IF v = "baseline" THEN RetStr(<<"Failed to search: ", ErrText(r)>>) ELSE RetList(<<>>)

\* searchByColumn / SolrClient.search_by_column
SearchByColumn(v, sv, c, col, val, r) ==
    LET rs == CoreResponse(sv, c, r)
        ret == CASE rs = "ok" -> RetList(Matches(sv, c, col, val))
                 [] rs = "unexpected" -> RetList(<<>>)
                 [] OTHER -> SearchFailure(v, rs)
    IN  Out(ret, <<Request("search", c, SearchQuery(col, val), <<>>, FALSE)>>, sv)

\* Mutant of CountFailure: the refactor returns 0 where the baseline returns
\* the failure string.
CountFailureZero(v, r) ==
    IF v = "baseline" THEN RetStr(<<"Failed to get employee count: ", ErrText(r)>>) ELSE RetInt(0)

\* except Exception of get count: a failure string, in both variants.
CountFailure(v, r) == RetStr(<<"Failed to get employee count: ", ErrText(r)>>)

\* getEmpCount / SolrClient.get_employee_count: results.hits of *:* with rows=0.
GetEmpCount(v, sv, c, r) ==
    LET rs == CoreResponse(sv, c, r)
        ret == CASE rs = "ok" -> RetInt(Hits(sv, c))
                 [] rs = "unexpected" -> RetInt(0)
                 [] OTHER -> CountFailure(v, rs)
    IN  Out(ret, <<Request("search", c, <<"*:*", "rows=0">>, <<>>, FALSE)>>, sv)

DeletedMsg(c, id) == RetStr(<<"Employee with ID ", id, " deleted from ", c>>)

DeleteFailure(v, r) == RetStr(<<"Failed to delete employee: ", ErrText(r)>>)

\* delEmpById / SolrClient.delete_employee_by_id
DelEmpById(v, sv, c, id, r) ==
    LET rs == CoreResponse(sv, c, r)
        sent == <<Request("delete", c, <<id>>, <<>>, AlwaysCommit)>>
    IN  IF rs \in TransportFailures THEN Out(DeleteFailure(v, rs), sent, sv)
        ELSE Out(DeletedMsg(c, id), sent,
                 ServerWrite(sv, c, DeletedIndex(sv.index[c], id), AlwaysCommit))

\* dict(zip(facet_counts[::2], facet_counts[1::2]))
FacetDict(l) == {<<l[2 * j - 1], l[2 * j]>> : j \in 1..(Len(l) \div 2)}

\* except Exception: the baseline returns a string, the refactor an empty dict.
FacetFailure(v, r) ==
    IF v = "baseline"
    THEN RetStr(<<"Failed to get department facet: ", ErrText(r)>>)
    ELSE RetDict({})

\* getDepFacet / SolrClient.get_department_facet
GetDepFacet(v, sv, c, r) ==
    LET rs == CoreResponse(sv, c, r)
        ret == IF rs = "ok" THEN RetDict(FacetDict(FacetList(sv, c))) ELSE FacetFailure(v, rs)
    IN  Out(ret, <<Request("search", c, <<"*:*", "facet=on", "facet.field=Department">>, <<>>, FALSE)>>, sv)

\* The first pieces of the strings that contain "Failed".
FailedPieces ==
    {"Failed to create core ", "Failed to index data: CSV file not found",
     "Failed to index data: CSV file ", "Failed to index data: ", "Failed to search: ",
     "Failed to get employee count: ", "Failed to delete employee: ",
     "Failed to get department facet: "}

\* isinstance(result, str) and "Failed" in result, main's test of a result.
SaysFailed(ret) == ret.kind = "str" /\ ret.parts # <<>> /\ ret.parts[1] \in FailedPieces

\* The operation named op of variant v, on its arguments and answers.
Exec(v, sv, op, c, arg, f, resp) ==
    CASE op = "check_connection" -> CheckConnection(v, sv, resp[1])
      [] op = "check_core_exists" -> CheckCoreExists(v, sv, c, resp[1])
      [] op = "create_core" -> CreateCore(v, sv, c, resp[1], IF Len(resp) > 1 THEN resp[2] ELSE "ok")
      [] op = "index_data" -> IndexData(v, sv, c, arg[1], f, resp[1])
      [] op = "search_by_column" -> SearchByColumn(v, sv, c, arg[1], arg[2], resp[1])
      [] op = "get_employee_count" -> GetEmpCount(v, sv, c, resp[1])
      [] op = "delete_employee_by_id" -> DelEmpById(v, sv, c, arg[1], resp[1])
      [] op = "get_department_facet" -> GetDepFacet(v, sv, c, resp[1])
      [] OTHER -> Out(RetNone, <<>>, sv)

(***************************************************************************)
(* Spec: a caller invokes the admin operations of one variant in any       *)
(* order, with any arguments.  call is the last invocation: its arguments, *)
(* the answers the server gave, what it returned, its events.  The content *)
(* of the CSV path is an input of each index data call (call.file).        *)
(***************************************************************************)
Sv == [cores |-> cores, index |-> index, searcher |-> searcher]

NoCall == [op |-> "none", core |-> "", arg |-> <<>>, file |-> NoFile, resp |-> <<>>,
           ret |-> RetNone, events |-> <<>>]

DefaultEnv == [exclude |-> [c \in CoreNames |-> "Department"]]

\* The invocation is recorded and the server moves to the outcome's state.
Invoke(op, c, arg, f, resp, outcome) ==
    \E o \in {outcome} :
        /\ call' = [op |-> op, core |-> c, arg |-> arg, file |-> f, resp |-> resp,
                    ret |-> o.ret, events |-> o.events]
        /\ cores' = o.sv.cores
        /\ index' = o.sv.index
        /\ searcher' = o.sv.searcher

Init ==
    /\ variant \in Variants
    /\ env = DefaultEnv
    /\ fs = NoFile
    /\ cores = {}
    /\ index = NoDocs
    /\ searcher = NoDocs
    /\ call = NoCall
    /\ documents = <<>>
    /\ pc = 0
    /\ log = <<>>
    /\ status = "api"

Fixed == UNCHANGED <<variant, env, fs, documents, pc, log, status>>

CallCheckConnection ==
    \E r \in ResponseKinds :
        /\ Invoke("check_connection", "", <<>>, NoFile, <<r>>, CheckConnection(variant, Sv, r))
        /\ Fixed

CallCheckCoreExists ==
    \E c \in CoreNames, r \in ResponseKinds :
        /\ Invoke("check_core_exists", c, <<>>, NoFile, <<r>>, CheckCoreExists(variant, Sv, c, r))
        /\ Fixed

\* resp holds the answers the call consumed: the one to CREATE only when
\* the existence check returned False.
CallCreateCore ==
    \E c \in CoreNames, r1 \in ResponseKinds :
        /\ IF CheckCoreExists(variant, Sv, c, r1).ret = RetBool(FALSE)
           THEN \E r2 \in ResponseKinds :
                    Invoke("create_core", c, <<>>, NoFile, <<r1, r2>>, CreateCore(variant, Sv, c, r1, r2))
           ELSE Invoke("create_core", c, <<>>, NoFile, <<r1>>, CreateCore(variant, Sv, c, r1, "ok"))
        /\ Fixed

CallIndexData ==
    \E c \in CoreNames, x \in CallExcludeChoices, f \in EmployeeFiles, r \in WriteAnswers :
        /\ Invoke("index_data", c, <<x>>, f, <<r>>, IndexData(variant, Sv, c, x, f, r))
        /\ Fixed

CallSearchByColumn ==
    \E c \in CoreNames, q \in {<<"Department", "IT">>, <<"Gender", "Male">>}, r \in ResponseKinds :
        /\ Invoke("search_by_column", c, q, NoFile, <<r>>, SearchByColumn(variant, Sv, c, q[1], q[2], r))
        /\ Fixed

CallGetEmpCount ==
    \E c \in CoreNames, r \in ResponseKinds :
        /\ Invoke("get_employee_count", c, <<>>, NoFile, <<r>>, GetEmpCount(variant, Sv, c, r))
        /\ Fixed

CallDelEmpById ==
    \E c \in CoreNames, id \in Ids, r \in WriteAnswers :
        /\ Invoke("delete_employee_by_id", c, <<id>>, NoFile, <<r>>, DelEmpById(variant, Sv, c, id, r))
        /\ Fixed

CallGetDepFacet ==
    \E c \in CoreNames, r \in ResponseKinds :
        /\ Invoke("get_department_facet", c, <<>>, NoFile, <<r>>, GetDepFacet(variant, Sv, c, r))
        /\ Fixed

Next ==
    \/ CallCheckConnection
    \/ CallCheckCoreExists
    \/ CallCreateCore
    \/ CallIndexData
    \/ CallSearchByColumn
    \/ CallGetEmpCount
    \/ CallDelEmpById
    \/ CallGetDepFacet

Spec == Init /\ [][Next]_vars

(***************************************************************************)
(* Claims checked under Spec.                                              *)
(***************************************************************************)
AllOk(resp) == \A i \in 1..Len(resp) : resp[i] = "ok"

\* What get count returns on the server state sv when the server answers.
CountOf(v, sv, c) == GetEmpCount(v, sv, c, "ok").ret

\* C1: with the server answering every request, create core of a core the
\* server lacks returns "created successfully", sends STATUS then CREATE and
\* the core exists afterwards; of a core the server has it returns "already
\* exists" and sends the STATUS request only; core exists returns whether the
\* server has the core; and the server never loses a core.
C1_CreateCoreIdempotent ==
    [][/\ cores \subseteq cores'
       /\ (call'.op = "create_core" /\ AllOk(call'.resp)) =>
              IF call'.core \notin cores
              THEN /\ call'.ret = RetStr(<<"Core ", call'.core, " created successfully.">>)
                   /\ call'.core \in cores'
                   /\ Requests(call'.events) = <<StatusRequest(call'.core), CreateRequest(call'.core)>>
              ELSE /\ call'.ret = RetStr(<<"Core ", call'.core, " already exists.">>)
                   /\ Requests(call'.events) = <<StatusRequest(call'.core)>>
                   /\ cores' = cores
       /\ (call'.op = "check_core_exists" /\ AllOk(call'.resp)) =>
              call'.ret = RetBool(call'.core \in cores)]_vars

\* C1 witness: create core has just answered "already exists" for a core the
\* server has, having sent one request.
C1_Witness ==
    /\ call.op = "create_core"
    /\ call.core \in cores
    /\ call.ret = RetStr(<<"Core ", call.core, " already exists.">>)
    /\ Len(call.events) = 1

\* C2: no admin operation lets a raised fault reach its caller.
C2_NoFaultReachesCaller == call.ret.kind # "raise"

\* The file is open when event j of the sequence happens.
FileOpenAt(events, j) ==
    Cardinality({i \in 1..(j - 1) : events[i].ev = "open"})
        > Cardinality({i \in 1..(j - 1) : events[i].ev = "close"})

\* C10: in index data the CSV file is closed before the add request is sent.
C10_FileClosedBeforeAdd ==
    \A j \in 1..Len(call.events) :
        (call.events[j].ev = "request" /\ call.events[j].req = "add") => ~FileOpenAt(call.events, j)

\* C5: index data on a missing CSV path returns the "CSV file not found"
\* string, sends no request and leaves the stored documents unchanged; no
\* index data call on an existing file returns that string or raises
\* FileNotFoundError.
C5_MissingCsv ==
    [][(call'.op = "index_data") =>
          IF ~call'.file.exists
          THEN /\ call'.ret.kind = "str"
               /\ call'.ret.parts \in {<<"Failed to index data: CSV file not found">>,
                                       <<"Failed to index data: CSV file ", CsvPath, " not found">>}
               /\ call'.events = <<>>
               /\ index' = index /\ searcher' = searcher /\ cores' = cores
          ELSE call'.ret.parts \notin {<<"Failed to index data: CSV file not found">>,
                                       <<"Failed to index data: CSV file ", CsvPath, " not found">>}]_vars

\* C5 witness: index data has met a missing file on a core that holds documents.
C5_Witness ==
    /\ call.op = "index_data"
    /\ ~call.file.exists
    /\ call.core \in cores
    /\ DOMAIN searcher[call.core] # {}

\* C7: delete by id never raises; when it reports success, the next get count
\* the server answers is one less than the count before if the id was stored
\* in the core, and equal to it otherwise.
C7_DeleteThenCount ==
    [][(call'.op = "delete_employee_by_id") =>
          /\ call'.ret.kind = "str"
          /\ (~SaysFailed(call'.ret)) =>
                 /\ call'.ret = RetStr(<<"Employee with ID ", call'.arg[1], " deleted from ", call'.core>>)
                 /\ CountOf(variant, Sv', call'.core).kind = "int"
                 /\ CountOf(variant, Sv', call'.core).num =
                        CountOf(variant, Sv, call'.core).num
                            - (IF call'.arg[1] \in DOMAIN index[call'.core] THEN 1 ELSE 0)]_vars

\* C7 witness: a delete of a stored id has reported success while another
\* document stays in the core.
C7_Witness ==
    /\ call.op = "delete_employee_by_id"
    /\ ~SaysFailed(call.ret)
    /\ DOMAIN searcher[call.core] = Ids \ {call.arg[1]}

\* The ids of the file's data rows, in row order.
RowIds(f) ==
    LET rs == SelectSeq(f.rows, NonBlank)
    IN  [j \in 1..Len(rs) |-> DictRow(f.header, rs[j])["id"]]

DistinctIds(f) == \A i, j \in 1..Len(RowIds(f)) : i # j => RowIds(f)[i] # RowIds(f)[j]

DataRows(f) == Len(SelectSeq(f.rows, NonBlank))

\* C8 as stated: after index data reports success the next get count is at
\* least the number of data rows, and equal to it when the core was empty.
C8_CountAfterIndex ==
    [][(call'.op = "index_data" /\ call'.ret.kind = "str" /\ ~SaysFailed(call'.ret)) =>
          /\ CountOf(variant, Sv', call'.core).num >= DataRows(call'.file)
          /\ (CountOf(variant, Sv, call'.core).num = 0) =>
                 CountOf(variant, Sv', call'.core).num = DataRows(call'.file)]_vars

\* C8 amended: the same, for a file whose data rows carry pairwise distinct
\* ids; for any file the count is at least the number of distinct ids of the
\* rows, and equal to it when the core was empty.
C8_CountAfterIndexDistinctIds ==
    [][(call'.op = "index_data" /\ call'.ret.kind = "str" /\ ~SaysFailed(call'.ret)) =>
          LET after == CountOf(variant, Sv', call'.core)
              before == CountOf(variant, Sv, call'.core)
              ids == {RowIds(call'.file)[j] : j \in 1..DataRows(call'.file)}
          IN  /\ after.kind = "int"
              /\ after.num >= Cardinality(ids)
              /\ before.num = 0 => after.num = Cardinality(ids)
              /\ DistinctIds(call'.file) =>
                     /\ after.num >= DataRows(call'.file)
                     /\ before.num = 0 => after.num = DataRows(call'.file)]_vars

\* C8 witness: two rows of distinct ids have been indexed into a core.
C8_Witness ==
    /\ call.op = "index_data"
    /\ ~SaysFailed(call.ret)
    /\ DataRows(call.file) = 2
    /\ DistinctIds(call.file)
    /\ Cardinality(DOMAIN searcher[call.core]) = 2

\* The functions agree outside the events' order: the value returned, the
\* requests sent, the server afterwards.
OtherVariant(v) == IF v = "baseline" THEN "optimized" ELSE "baseline"

\* The failures on which the two variants are written differently: index
\* data (the missing file's message, the fault of the add), search by column
\* and get facet counts (a string against an empty list or mapping).
DocumentedDifference(op, base) ==
    /\ op \in {"index_data", "search_by_column", "get_department_facet"}
    /\ base.kind = "raise" \/ SaysFailed(base)

\* C6 as stated: an admin operation of one variant returns what the operation
\* of the other variant returns on the same server, arguments and answers.
C6_SameReturnValue ==
    [][call' # call =>
          Exec(OtherVariant(variant), Sv, call'.op, call'.core, call'.arg, call'.file, call'.resp).ret
              = call'.ret]_vars

\* C6 amended: on the same server, arguments and answers the two variants of
\* an operation send the same requests and leave the server in the same
\* state, and they return the same value except on a failure of index data,
\* search by column or get facet counts.
C6_SameUpToFailureValues ==
    [][call' # call =>
          \A other \in {Exec(OtherVariant(variant), Sv, call'.op, call'.core, call'.arg,
                             call'.file, call'.resp)} :
              /\ Requests(other.events) = Requests(call'.events)
              /\ other.sv = Sv'
              /\ \/ other.ret = call'.ret
                 \/ DocumentedDifference(call'.op, IF variant = "baseline" THEN call'.ret ELSE other.ret)]_vars

\* C6 witness: get count has failed and returned its failure string, one of
\* the failures on which the variants must agree.
C6_Witness ==
    /\ call.op = "get_employee_count"
    /\ SaysFailed(call.ret)
    /\ call.core \in cores

(***************************************************************************)
(* SpecCsv: the conversion of index data alone.  The file is any header    *)
(* of CsvHeaders with at most MaxRows rows of RowsOf; the step reads it    *)
(* into documents, excluding a column.                                     *)
(***************************************************************************)
CellValues == {"E02003", "IT"}

CsvHeaders == {<<"id", "Department", "Gender">>, <<"id", "Department">>, <<"Department", "id">>, <<"id", "id">>}

\* The rows a file of header h can hold: for a header of two columns every
\* row of up to three fields (blank, short, full, with a surplus field), for
\* the header of three columns the full rows.
RowsOf(h) == IF Len(h) > 2 THEN [1..Len(h) -> CellValues] ELSE SeqsUpTo(CellValues, Len(h) + 1)

CsvFiles == UNION {{Csv(h, rs) : rs \in SeqsUpTo(RowsOf(h), MaxRows)} : h \in CsvHeaders}

CsvInit ==
    /\ variant \in Variants
    /\ env = DefaultEnv
    /\ fs \in CsvFiles
    /\ cores = {}
    /\ index = NoDocs
    /\ searcher = NoDocs
    /\ call = NoCall
    /\ documents = <<>>
    /\ pc = 0
    /\ log = <<>>
    /\ status = "csv"

\* with open(...) as file: reader = csv.DictReader(file); documents = [...]
ReadDocuments ==
    \E x \in ExcludeChoices :
        /\ documents' = Documents(fs, x)
        /\ call' = [NoCall EXCEPT !.op = "read_documents", !.arg = <<x>>, !.file = fs]
        /\ UNCHANGED <<variant, env, fs, cores, index, searcher, pc, log, status>>

CsvNext == ReadDocuments

SpecCsv == CsvInit /\ [][CsvNext]_vars

HeaderSet(f) == {f.header[i] : i \in 1..Len(f.header)}

DistinctHeader(f) == Cardinality(HeaderSet(f)) = Len(f.header)

\* Every data row has as many fields as the header.
Rectangular(f) == \A i \in 1..Len(f.rows) : Len(f.rows[i]) = Len(f.header)

\* The field of a row under column k, as a cell; None when the row is short.
FieldOf(f, row, k) ==
    LET i == CHOOSE j \in 1..Len(f.header) : f.header[j] = k
    IN  IF i <= Len(row) THEN <<row[i]>> ELSE RestVal

\* Document i is row i without column x: its keys and their values.
IsRowWithout(f, i, x) ==
    /\ DOMAIN documents[i] = HeaderSet(f) \ {x}
    /\ \A k \in DOMAIN documents[i] : documents[i][k] = FieldOf(f, f.rows[i], k)

\* C4 as stated, on the files of distinct column names whose rows all have
\* as many fields as the header: index data builds one document per data row,
\* in row order, with keys the header without x and the row's values, and
\* every document has exactly one column less than the header.
C4_OneColumnRemoved ==
    (call.op = "read_documents" /\ DistinctHeader(fs) /\ Rectangular(fs)) =>
        /\ Len(documents) = Len(fs.rows)
        /\ \A i \in 1..Len(documents) :
               /\ Cardinality(DOMAIN documents[i]) = Cardinality(HeaderSet(fs)) - 1
               /\ IsRowWithout(fs, i, call.arg[1])

\* C4 amended: for a header of distinct names and data rows that all have as
\* many fields as the header, index data builds one document per data row, in
\* row order, with keys the header without x and the row's values; a document
\* has one column less than the header when x is a column, and none less
\* when it is not.
C4_DocumentsOfRectangularCsv ==
    (call.op = "read_documents" /\ DistinctHeader(fs) /\ Rectangular(fs)) =>
        /\ Len(documents) = Len(fs.rows)
        /\ \A i \in 1..Len(documents) :
               /\ IsRowWithout(fs, i, call.arg[1])
               /\ Cardinality(DOMAIN documents[i]) =
                      Len(fs.header) - (IF call.arg[1] \in HeaderSet(fs) THEN 1 ELSE 0)

\* C4 witness: a file of three columns and two different full rows has been
\* read, excluding its second column.
C4_Witness ==
    /\ call.op = "read_documents"
    /\ call.arg = <<"Department">>
    /\ fs.header = <<"id", "Department", "Gender">>
    /\ fs.rows = <<<<"E02003", "IT", "IT">>, <<"IT", "E02003", "E02003">>>>
    /\ Len(documents) = 2
    /\ DOMAIN documents[2] = {"id", "Gender"}

(***************************************************************************)
(* SpecMain: main() of either script.  Script is the fixed sequence of     *)
(* calls main makes when nothing stops it; pc is the next one.  Each step  *)
(* makes one call, against any answers of the server.  log is the calls    *)
(* made so far and status says whether main is running, has returned, or   *)
(* was ended by a fault raised out of a call.                              *)
(***************************************************************************)
Step(op, c, arg) == [op |-> op, core |-> c, arg |-> arg]

\* os.getenv('EMPLOYEE_ID_TO_DELETE', 'E02003') and the baseline's literal.
EmployeeIdToDelete == "E02003"

\* os.getenv('SEARCH_DEPARTMENT', 'IT') and the baseline's literal.
SearchDepartment == "IT"

\* os.getenv('CORE_NAMES', 'Hash_YourName,Hash_1234').split(',')
CoreList == <<NameCore, PhoneCore>>

\* The environments of a run: nothing set, or the second core's
\* HASH_1234_EXCLUDE_COLUMN set to the column the baseline excludes there.
EnvChoices == {DefaultEnv, [exclude |-> [c \in CoreNames |-> IF c = PhoneCore THEN "Gender" ELSE "Department"]]}

\* main of src/app.py after the connection check.
BaselineScript ==
    << Step("create_core", NameCore, <<>>),
       Step("create_core", PhoneCore, <<>>),
       Step("get_employee_count", NameCore, <<>>),
       Step("index_data", NameCore, <<"Department">>),
       Step("index_data", PhoneCore, <<"Gender">>),
       Step("delete_employee_by_id", NameCore, <<EmployeeIdToDelete>>),
       Step("get_employee_count", NameCore, <<>>),
       Step("search_by_column", NameCore, <<"Department", SearchDepartment>>),
       Step("search_by_column", NameCore, <<"Gender", "Male">>),
       Step("search_by_column", PhoneCore, <<"Department", SearchDepartment>>),
       Step("get_department_facet", NameCore, <<>>),
       Step("get_department_facet", PhoneCore, <<>>) >>

\* setup_cores: create_core for each core name, in order.
SetupCores(names) == [i \in 1..Len(names) |-> Step("create_core", names[i], <<>>)]

\* index_data_to_cores: index_data for each entry of core_configs, in order.
IndexDataToCores(names, e) ==
    [i \in 1..Len(names) |-> Step("index_data", names[i], <<e.exclude[names[i]]>>)]

\* perform_operations on one core.
PerformOperations(c) ==
    << Step("delete_employee_by_id", c, <<EmployeeIdToDelete>>),
       Step("get_employee_count", c, <<>>),
       Step("search_by_column", c, <<"Department", SearchDepartment>>),
       Step("get_department_facet", c, <<>>) >>

\* main of src/optimized/app.py after the connection check.
OptimizedScript(e) ==
    SetupCores(CoreList) \o IndexDataToCores(CoreList, e)
        \o PerformOperations(CoreList[1]) \o PerformOperations(CoreList[2])

Script(v, e) ==
    <<Step("check_connection", "", <<>>)>>
        \o (IF v = "baseline" THEN BaselineScript ELSE OptimizedScript(e))

MainInit ==
    /\ variant \in Variants
    /\ env \in EnvChoices
    /\ fs \in EmployeeFiles
    /\ cores \in {{}, CoreNames}
    /\ index = NoDocs
    /\ searcher = NoDocs
    /\ call = NoCall
    /\ documents = <<>>
    /\ pc = 1
    /\ log = <<>>
    /\ status = "running"

\* The call at pc is made with the answers resp; a fault raised out of it
\* ends main, and so does the end of the script.
MainCall(resp) ==
    LET st == Script(variant, env)[pc]
        o == Exec(variant, Sv, st.op, st.core, st.arg, fs, resp)
    IN  /\ Invoke(st.op, st.core, st.arg, IF st.op = "index_data" THEN fs ELSE NoFile, resp, o)
        /\ log' = Append(log, st)
        /\ pc' = pc + 1
        /\ status' = IF o.ret.kind = "raise" THEN "raised"
                     ELSE IF pc = Len(Script(variant, env)) THEN "returned"
                     ELSE "running"
        /\ UNCHANGED <<variant, env, fs, documents>>

AtStep(op) ==
    /\ status = "running"
    /\ pc <= Len(Script(variant, env))
    /\ Script(variant, env)[pc].op = op

\* if not check_connection(): return
MainCheckConnection ==
    /\ AtStep("check_connection")
    /\ \E r \in ResponseKinds :
        LET o == CheckConnection(variant, Sv, r)
        IN  /\ Invoke("check_connection", "", <<>>, NoFile, <<r>>, o)
            /\ log' = Append(log, Script(variant, env)[pc])
            /\ pc' = pc + 1
            /\ status' = IF o.ret.kind = "raise" THEN "raised"
                         ELSE IF o.ret = RetBool(FALSE) THEN "returned"
                         ELSE "running"
            /\ UNCHANGED <<variant, env, fs, documents>>

MainCreateCore ==
    /\ AtStep("create_core")
    /\ \E r1 \in ResponseKinds :
        IF CheckCoreExists(variant, Sv, Script(variant, env)[pc].core, r1).ret = RetBool(FALSE)
        THEN \E r2 \in ResponseKinds : MainCall(<<r1, r2>>)
        ELSE MainCall(<<r1>>)

MainIndexData == AtStep("index_data") /\ \E r \in WriteAnswers : MainCall(<<r>>)

MainGetEmpCount == AtStep("get_employee_count") /\ \E r \in ResponseKinds : MainCall(<<r>>)

MainDelEmpById == AtStep("delete_employee_by_id") /\ \E r \in WriteAnswers : MainCall(<<r>>)

MainSearchByColumn == AtStep("search_by_column") /\ \E r \in ResponseKinds : MainCall(<<r>>)

MainGetDepFacet == AtStep("get_department_facet") /\ \E r \in ResponseKinds : MainCall(<<r>>)

MainNext ==
    \/ MainCheckConnection
    \/ MainCreateCore
    \/ MainIndexData
    \/ MainGetEmpCount
    \/ MainDelEmpById
    \/ MainSearchByColumn
    \/ MainGetDepFacet

SpecMain == MainInit /\ [][MainNext]_vars

\* C3: whenever the initial status check fails, check connection returns
\* false and main returns, having made no other call.
C3_ConnectionFailureStopsMain ==
    (call.op = "check_connection" /\ call.resp[1] \in TransportFailures) =>
        /\ call.ret = RetBool(FALSE)
        /\ status = "returned"
        /\ log = <<Step("check_connection", "", <<>>)>>

\* C9: once the connection check has succeeded, main makes every call of its
\* sequence, in order, whatever fails, and then returns.
C9_MainRunsToTheEnd ==
    (status # "running" /\ Len(log) > 1) =>
        /\ status = "returned"
        /\ log = Script(variant, env)

====
